---- MODULE Spec2Model ----
(***************************************************************************)
(* Model of the booking server (src/server.py): the four tools             *)
(* search_hotels, search_rooms, book and book_confirm over the properties, *)
(* rooms, guests and bookings tables, and the confirmation e-mail          *)
(* dispatch.  Text is a sequence of one-character strings, so that         *)
(* strip/lower/split/join and substring tests are computed as the code     *)
(* computes them.  Money is an amount in cents.                            *)
(***************************************************************************)
EXTENDS Integers, Sequences, FiniteSets, TLC

VARIABLES properties, rooms, guests, bookings, guestSeq, proc, outbox, resp, calls, returned

vars == <<properties, rooms, guests, bookings, guestSeq, proc, outbox, resp, calls, returned>>

stores == <<properties, rooms, guests, bookings>>

(* ---------------------------- bounds ----------------------------------- *)

\* the number of tool invocations in a run
MaxCalls == 2

Procs == {1, 2}

(* the null value of the datastore / Python None *)
Null == <<"<null>">>

(* ---------------------------- text -------------------------------------- *)

UpperLetters ==
    <<"A", "B", "C", "D", "E", "F", "G", "H", "I", "J", "K", "L", "M",
      "N", "O", "P", "Q", "R", "S", "T", "U", "V", "W", "X", "Y", "Z">>

LowerLetters ==
    <<"a", "b", "c", "d", "e", "f", "g", "h", "i", "j", "k", "l", "m",
      "n", "o", "p", "q", "r", "s", "t", "u", "v", "w", "x", "y", "z">>

CharLower(c) ==
    IF \E i \in 1..26 : UpperLetters[i] = c
    THEN LowerLetters[CHOOSE i \in 1..26 : UpperLetters[i] = c]
    ELSE c

CharUpper(c) ==
    IF \E i \in 1..26 : LowerLetters[i] = c
    THEN UpperLetters[CHOOSE i \in 1..26 : LowerLetters[i] = c]
    ELSE c

IsWs(c) == c \in {" ", "\t", "\n"}

\* str.lower()
Lower(s) == [i \in 1..Len(s) |-> CharLower(s[i])]

\* str.upper()
Upper(s) == [i \in 1..Len(s) |-> CharUpper(s[i])]

RECURSIVE LStrip(_)
LStrip(s) ==
    IF s = <<>> THEN s
    ELSE IF IsWs(Head(s)) THEN LStrip(Tail(s)) ELSE s

RECURSIVE RStrip(_)
RStrip(s) ==
    IF s = <<>> THEN s
    ELSE IF IsWs(s[Len(s)]) THEN RStrip(SubSeq(s, 1, Len(s) - 1)) ELSE s

\* str.strip()
Strip(s) == RStrip(LStrip(s))

\* re.split(r"\s+", s): the pieces between maximal whitespace runs
RECURSIVE SplitAcc(_, _, _)
SplitAcc(s, cur, toks) ==
    IF s = <<>> THEN Append(toks, cur)
    ELSE IF IsWs(Head(s)) THEN SplitAcc(LStrip(s), <<>>, Append(toks, cur))
    ELSE SplitAcc(Tail(s), Append(cur, Head(s)), toks)

SplitWs(s) == SplitAcc(s, <<>>, <<>>)

\* sep.join(parts)
RECURSIVE Join(_, _)
Join(parts, sep) ==
    IF parts = <<>> THEN <<>>
    ELSE IF Len(parts) = 1 THEN parts[1]
    ELSE parts[1] \o sep \o Join(Tail(parts), sep)

\* a in b  (Python substring test)
IsSubstr(a, b) ==
    \E i \in 0..(Len(b) - Len(a)) : SubSeq(b, i + 1, i + Len(a)) = a

\* s.count(c)
RECURSIVE CountChar(_, _)
CountChar(s, c) ==
    IF s = <<>> THEN 0
    ELSE (IF Head(s) = c THEN 1 ELSE 0) + CountChar(Tail(s), c)

\* normalize_text(value): None -> "", else " ".join(re.split(r"\s+", str(value).strip().lower()))
normalize_text(value) ==
    IF value = Null THEN <<>>
    ELSE Join(SplitWs(Lower(Strip(value))), <<" ">>)

\* value or ""  for a text column that may be null
OrEmpty(value) == IF value = Null THEN <<>> ELSE value

\* column ILIKE '%pat%' : case-insensitive containment, never true of a null column
ilike(col, pat) == col # Null /\ IsSubstr(Lower(pat), Lower(col))

(* ---------------------------- literals ---------------------------------- *)

UnitId1 ==
    <<"0", "0", "0", "0", "0", "0", "0", "0", "-", "0", "0", "0", "0", "-", "4", "0", "0", "0", "-", "8", "0", "0", "0", "-", "0", "0", "0", "0", "0", "0", "0", "0", "0", "0", "0", "1">>
UnitId2 ==
    <<"0", "0", "0", "0", "0", "0", "0", "0", "-", "0", "0", "0", "0", "-", "4", "0", "0", "0", "-", "8", "0", "0", "0", "-", "0", "0", "0", "0", "0", "0", "0", "0", "0", "0", "0", "2">>
UnitId3 ==
    <<"0", "0", "0", "0", "0", "0", "0", "0", "-", "0", "0", "0", "0", "-", "4", "0", "0", "0", "-", "8", "0", "0", "0", "-", "0", "0", "0", "0", "0", "0", "0", "0", "0", "0", "0", "3">>
UnitIdMissing ==
    <<"0", "0", "0", "0", "0", "0", "0", "0", "-", "0", "0", "0", "0", "-", "4", "0", "0", "0", "-", "8", "0", "0", "0", "-", "0", "0", "0", "0", "0", "0", "0", "0", "0", "0", "0", "9">>
SovaHouse ==
    <<"S", "o", "v", "a", " ", "H", "o", "u", "s", "e">>
SovaHousePadded ==
    <<" ", "S", "o", "v", "a", " ", "H", "o", "u", "s", "e", " ">>
Leleka ==
    <<"L", "e", "l", "e", "k", "a">>
Vysota890 ==
    <<"V", "y", "s", "o", "t", "a", " ", "8", "9", "0">>
TatraInn ==
    <<"T", "a", "t", "r", "a", " ", "I", "n", "n">>
Volosianka ==
    <<"V", "o", "l", "o", "s", "i", "a", "n", "k", "a">>
Zakopane ==
    <<"Z", "a", "k", "o", "p", "a", "n", "e">>
Lviv ==
    <<"L", "v", "i", "v">>
Ukraine ==
    <<"U", "k", "r", "a", "i", "n", "e">>
Poland ==
    <<"P", "o", "l", "a", "n", "d">>
Home ==
    <<"H", "o", "m", "e">>
Cabin ==
    <<"C", "a", "b", "i", "n">>
CozyStay ==
    <<"C", "o", "z", "y", " ", "s", "t", "a", "y">>
Wifi ==
    <<"W", "i", "f", "i">>
HotTub ==
    <<"H", "o", "t", " ", "t", "u", "b">>
Pool ==
    <<"P", "o", "o", "l">>
SmokeAlarm ==
    <<"S", "m", "o", "k", "e", " ", "a", "l", "a", "r", "m">>
SmokeAlarmNotReported ==
    <<"S", "m", "o", "k", "e", " ", "a", "l", "a", "r", "m", " ", "n", "o", "t", " ", "r", "e", "p", "o", "r", "t", "e", "d">>
CarbonMonoxideAlarm ==
    <<"C", "a", "r", "b", "o", "n", " ", "m", "o", "n", "o", "x", "i", "d", "e", " ", "a", "l", "a", "r", "m">>
SecurityCamera ==
    <<"S", "e", "c", "u", "r", "i", "t", "y", " ", "c", "a", "m", "e", "r", "a">>
FireExtinguisher ==
    <<"F", "i", "r", "e", " ", "e", "x", "t", "i", "n", "g", "u", "i", "s", "h", "e", "r">>
FirstAidKit ==
    <<"F", "i", "r", "s", "t", " ", "a", "i", "d", " ", "k", "i", "t">>
Smoke ==
    <<"S", "m", "o", "k", "e">>
Alarm ==
    <<"A", "l", "a", "r", "m">>
MarkerSmokeNotReported ==
    <<"s", "m", "o", "k", "e", " ", "a", "l", "a", "r", "m", " ", "n", "o", "t", " ", "r", "e", "p", "o", "r", "t", "e", "d">>
MarkerSmoke ==
    <<"s", "m", "o", "k", "e", " ", "a", "l", "a", "r", "m">>
MarkerCarbonMonoxide ==
    <<"c", "a", "r", "b", "o", "n", " ", "m", "o", "n", "o", "x", "i", "d", "e", " ", "a", "l", "a", "r", "m">>
MarkerCamera ==
    <<"c", "a", "m", "e", "r", "a">>
MarkerSecurityCamera ==
    <<"s", "e", "c", "u", "r", "i", "t", "y", " ", "c", "a", "m", "e", "r", "a">>
MarkerFireExtinguisher ==
    <<"f", "i", "r", "e", " ", "e", "x", "t", "i", "n", "g", "u", "i", "s", "h", "e", "r">>
MarkerFirstAid ==
    <<"f", "i", "r", "s", "t", " ", "a", "i", "d", " ", "k", "i", "t">>
QHot ==
    <<"h", "o", "t">>
QHotTubSpaced ==
    <<" ", "H", "O", "T", " ", " ", " ", "t", "u", "b", " ">>
QVysota ==
    <<"v", "y", "s", "o", "t", "a">>
QVolosianka ==
    <<"v", "o", "l", "o", "s", "i", "a", "n", "k", "a">>
QPool ==
    <<"p", "o", "o", "l">>
QVolos ==
    <<"v", "o", "l", "o", "s">>
QAn ==
    <<"a", "n">>
Blank ==
    <<" ">>

(* ---------------------------- datastore rows ---------------------------- *)

\* a null list-valued column (distinct from a null item inside a list)
NullColumn == << <<"<null-column>">> >>

\* Optional[float] / Optional[int] argument left at its default None
NoneNum == -1

\* dict.get(key): the value, or None when the key is absent
Get(rec, key) == IF key \in DOMAIN rec THEN rec[key] ELSE Null

Property1 ==
    [id |-> "acc-1", name |-> Vysota890, city |-> Volosianka, state |-> Lviv,
     country |-> Ukraine, rating |-> 49, lat |-> 490, lng |-> 230]

Property2 ==
    [id |-> "acc-2", name |-> TatraInn, city |-> Zakopane, state |-> Null,
     country |-> Poland, rating |-> 45, lat |-> 493, lng |-> 199]

Room(id, pid, name, type, price, maxg, amen) ==
    [id |-> id, property_id |-> pid, name |-> name, type |-> type,
     description |-> CozyStay, price_per_night |-> price, currency_code |-> "USD",
     max_guests |-> maxg, images |-> <<"https://example.com/1.jpg">>, amenities |-> amen]

\* the rooms table with the amenities of the first two rooms left open
RoomsWith(am1, am2) ==
    << Room(UnitId1, "acc-1", SovaHouse, Home, 15000, 4, am1),
       Room(UnitId2, "acc-1", Leleka, Cabin, 9000, 2, am2),
       Room(UnitId3, "acc-2", SovaHouse, Home, 20000, 4, <<Pool>>) >>

\* amenity columns: free-text labels, possibly with null items, or a null column
AmenityColumns ==
    { <<Wifi, HotTub>>,
      <<Pool>>,
      NullColumn,
      <<>>,
      <<SmokeAlarm, Null, Pool>>,
      <<SmokeAlarmNotReported>>,
      <<SmokeAlarm, SmokeAlarmNotReported, FirstAidKit>>,
      <<Smoke, Alarm, CarbonMonoxideAlarm>>,
      <<SecurityCamera, FireExtinguisher>>,
      <<FirstAidKit, FireExtinguisher, SecurityCamera, CarbonMonoxideAlarm, SmokeAlarm>> }

(* ---------------------------- search_hotels ----------------------------- *)

\* delta = 0.5 degrees, coordinates being kept in tenths of a degree
GeoDelta == 5

\* search_hotels: the properties matching every supplied filter
search_hotels(a) ==
    LET hit(p) == /\ (a.hotel_name # <<>> => ilike(p.name, a.hotel_name))
                  /\ (a.city # <<>> => ilike(p.city, a.city))
                  /\ (a.country # <<>> => ilike(p.country, a.country))
                  /\ ((a.lat # NoneNum /\ a.lng # NoneNum) =>
                        /\ p.lat >= a.lat - GeoDelta /\ p.lat <= a.lat + GeoDelta
                        /\ p.lng >= a.lng - GeoDelta /\ p.lng <= a.lng + GeoDelta)
        hotels == SelectSeq(properties, hit)
    IN  [op |-> "search_hotels", args |-> a, error |-> "", hotels |-> hotels,
         count |-> Len(hotels)]

(* ---------------------------- search_rooms ------------------------------ *)

PropertyOf(pid) == CHOOSE p \in {properties[i] : i \in 1..Len(properties)} : p.id = pid

HasProperty(pid) == \E i \in 1..Len(properties) : properties[i].id = pid

\* the embedded columns selected by search_rooms: properties!inner(city, state, country, rating, ...)
SearchProjection(p) ==
    [city |-> p.city, state |-> p.state, country |-> p.country, rating |-> p.rating,
     lat |-> p.lat, lng |-> p.lng]

\* normalize_amenities: the non-null items of a list, [] for a null column
normalize_amenities(raw) ==
    IF raw = NullColumn THEN <<>> ELSE SelectSeq(raw, LAMBDA item : item # Null)

\* build_query(include_country).execute().data: rooms joined with their property
build_query(a, include_country) ==
    LET keep(r) ==
            /\ HasProperty(r.property_id)
            /\ LET p == PropertyOf(r.property_id) IN
               /\ (a.hotel_name # <<>> => ilike(p.city, a.hotel_name))
               /\ (a.city # <<>> => ilike(p.city, a.city))
               /\ ((include_country /\ a.country # <<>>) => ilike(p.country, a.country))
            /\ (a.unit_type # <<>> => ilike(r.type, a.unit_type))
            /\ (a.max_price # NoneNum => r.price_per_night <= a.max_price)
            /\ (a.min_guests # NoneNum => r.max_guests >= a.min_guests)
        kept == SelectSeq(rooms, keep)
    IN  [i \in 1..Len(kept) |->
            [unit |-> kept[i], properties |-> SearchProjection(PropertyOf(kept[i].property_id))]]

\* unit_matches_text_filters(unit) for a joined row
unit_matches_text_filters(row, normalized_query, normalized_amenity) ==
    LET accommodation == row.properties
        amenities_list == normalize_amenities(row.unit.amenities)
        amenities_blob == normalize_text(Join(amenities_list, <<" ">>))
        searchable_blob ==
            normalize_text(Join(<< OrEmpty(row.unit.name),
                                   OrEmpty(row.unit.description),
                                   OrEmpty(row.unit.type),
                                   OrEmpty(Get(accommodation, "name")),
                                   OrEmpty(Get(accommodation, "city")),
                                   OrEmpty(Get(accommodation, "state")),
                                   OrEmpty(Get(accommodation, "country")),
                                   Join(amenities_list, <<" ">>) >>, <<" ">>))
    IN  /\ ~(normalized_query # <<>> /\ ~IsSubstr(normalized_query, searchable_blob))
        /\ ~(normalized_amenity # <<>> /\ ~IsSubstr(normalized_amenity, amenities_blob))

SmokeNotReportedLine == "Smoke alarm not reported"
SmokeAvailableLine == "Smoke alarm available"
CarbonMonoxideLine == "Carbon monoxide alarm available"
CameraLine == "Exterior security cameras on property"
FireExtinguisherLine == "Fire extinguisher available"
FirstAidLine == "First aid kit available"
NoSafetyNotes == "No special safety notes provided by host."

derive_safety_both(amenities) ==
    LET amenity_blob == Join([i \in 1..Len(amenities) |-> Lower(amenities[i])], <<" ">>)
        smoke == (IF IsSubstr(MarkerSmokeNotReported, amenity_blob)
                  THEN <<SmokeNotReportedLine>> ELSE <<>>)
                 \o (IF IsSubstr(MarkerSmoke, amenity_blob) THEN <<SmokeAvailableLine>> ELSE <<>>)
        co == IF IsSubstr(MarkerCarbonMonoxide, amenity_blob) THEN <<CarbonMonoxideLine>> ELSE <<>>
        cam == IF IsSubstr(MarkerCamera, amenity_blob) \/ IsSubstr(MarkerSecurityCamera, amenity_blob)
               THEN <<CameraLine>> ELSE <<>>
        fire == IF IsSubstr(MarkerFireExtinguisher, amenity_blob) THEN <<FireExtinguisherLine>> ELSE <<>>
        aid == IF IsSubstr(MarkerFirstAid, amenity_blob) THEN <<FirstAidLine>> ELSE <<>>
        lines == smoke \o co \o cam \o fire \o aid
    IN  IF lines = <<>> THEN <<NoSafetyNotes>>
        ELSE Join([i \in 1..Len(lines) |-> <<lines[i]>>], <<"\n">>)

\* derive_safety(amenities): the lines of the note, separated by "\n"
derive_safety(amenities) ==
    LET amenity_blob == Join([i \in 1..Len(amenities) |-> Lower(amenities[i])], <<" ">>)
        smoke == IF IsSubstr(MarkerSmokeNotReported, amenity_blob) THEN <<SmokeNotReportedLine>>
                 ELSE IF IsSubstr(MarkerSmoke, amenity_blob) THEN <<SmokeAvailableLine>>
                 ELSE <<>>
        co == IF IsSubstr(MarkerCarbonMonoxide, amenity_blob) THEN <<CarbonMonoxideLine>> ELSE <<>>
        cam == IF IsSubstr(MarkerCamera, amenity_blob) \/ IsSubstr(MarkerSecurityCamera, amenity_blob)
               THEN <<CameraLine>> ELSE <<>>
        fire == IF IsSubstr(MarkerFireExtinguisher, amenity_blob) THEN <<FireExtinguisherLine>> ELSE <<>>
        aid == IF IsSubstr(MarkerFirstAid, amenity_blob) THEN <<FirstAidLine>> ELSE <<>>
        lines == smoke \o co \o cam \o fire \o aid
    IN  IF lines = <<>> THEN <<NoSafetyNotes>>
        ELSE Join([i \in 1..Len(lines) |-> <<lines[i]>>], <<"\n">>)

\* one entry of structured_units
structured_unit(row) ==
    LET accommodation == row.properties
        amenities_list == normalize_amenities(row.unit.amenities)
    IN  [id |-> row.unit.id, name |-> row.unit.name, type |-> row.unit.type,
         price_per_night |-> row.unit.price_per_night,
         max_guests |-> row.unit.max_guests,
         amenities |-> amenities_list,
         hotel_name |-> Get(accommodation, "name"),
         location |-> [city |-> Get(accommodation, "city"),
                       state |-> Get(accommodation, "state"),
                       country |-> Get(accommodation, "country")],
         safety |-> derive_safety(amenities_list)]

\* search_rooms: structured query, text filters, country relaxation, enrichment
search_rooms(a) ==
    LET normalized_query == Join(SplitWs(Lower(Strip(a.query))), <<" ">>)
        normalized_amenity == Join(SplitWs(Lower(Strip(a.amenity))), <<" ">>)
        matches(row) == unit_matches_text_filters(row, normalized_query, normalized_amenity)
        primary == SelectSeq(build_query(a, TRUE), matches)
        retry == primary = <<>> /\ a.city # <<>> /\ a.country # <<>>
        relaxed_units == IF retry THEN SelectSeq(build_query(a, FALSE), matches) ELSE <<>>
        relaxed_country_filter == retry /\ relaxed_units # <<>>
        units == IF relaxed_country_filter THEN relaxed_units ELSE primary
    IN  [op |-> "search_rooms", args |-> a, error |-> "",
         units |-> [i \in 1..Len(units) |-> structured_unit(units[i])],
         count |-> Len(units),
         relaxed_country_filter |-> relaxed_country_filter,
         queries |-> IF retry THEN 2 ELSE 1]

(* ---------------------------- dates ------------------------------------- *)

Date(y, m, d) == [y |-> y, m |-> m, d |-> d]

IsLeap(y) == (y % 4 = 0) /\ ((y % 100 # 0) \/ (y % 400 = 0))

DaysInMonth(y, m) ==
    IF m = 2 THEN (IF IsLeap(y) THEN 29 ELSE 28)
    ELSE IF m \in {4, 6, 9, 11} THEN 30 ELSE 31

RECURSIVE DaysBeforeMonth(_, _)
DaysBeforeMonth(y, m) ==
    IF m = 1 THEN 0 ELSE DaysBeforeMonth(y, m - 1) + DaysInMonth(y, m - 1)

\* date.toordinal()
ToOrdinal(dt) ==
    LET py == dt.y - 1
    IN  py * 365 + (py \div 4) - (py \div 100) + (py \div 400)
        + DaysBeforeMonth(dt.y, dt.m) + dt.d

\* (a - b).days
DaysBetween(a, b) == ToOrdinal(a) - ToOrdinal(b)

Digits == <<"0", "1", "2", "3", "4", "5", "6", "7", "8", "9">>

Pad2(n) == << Digits[((n \div 10) % 10) + 1], Digits[(n % 10) + 1] >>

\* date.isoformat(): YYYY-MM-DD
isoformat(dt) ==
    Pad2(dt.y \div 100) \o Pad2(dt.y % 100) \o <<"-">> \o Pad2(dt.m) \o <<"-">> \o Pad2(dt.d)

(* ---------------------------- book -------------------------------------- *)

\* rooms joined with all columns of their property: select("*, properties!inner(*)")
JoinedRooms ==
    LET kept == SelectSeq(rooms, LAMBDA r : HasProperty(r.property_id))
    IN  [i \in 1..Len(kept) |->
            [unit |-> kept[i], properties |-> PropertyOf(kept[i].property_id)]]

looks_like_uuid(unit_id) ==
    unit_id # <<>> /\ Len(unit_id) = 36 /\ CountChar(unit_id, "-") = 4

book_payload_day_of_month(a, row) ==
    LET nights == a.check_out.d - a.check_in.d
        total == row.unit.price_per_night * nights
    IN  [op |-> "book", args |-> a, error |-> "",
         unit_id |-> row.unit.id,
         unit_name |-> row.unit.name,
         hotel_name |-> Get(row.properties, "city"),
         check_in |-> isoformat(a.check_in),
         check_out |-> isoformat(a.check_out),
         nights |-> nights,
         guests |-> a.guests,
         price_per_night |-> row.unit.price_per_night,
         currency_code |-> row.unit.currency_code,
         total_price |-> total,
         image_url |-> IF row.unit.images # <<>> THEN row.unit.images[1] ELSE "",
         rating |-> row.properties.rating]

\* the payload of book once the unit row is known
book_payload(a, row) ==
    LET nights == DaysBetween(a.check_out, a.check_in)
        total == row.unit.price_per_night * nights
    IN  [op |-> "book", args |-> a, error |-> "",
         unit_id |-> row.unit.id,
         unit_name |-> row.unit.name,
         hotel_name |-> Get(row.properties, "city"),
         check_in |-> isoformat(a.check_in),
         check_out |-> isoformat(a.check_out),
         nights |-> nights,
         guests |-> a.guests,
         price_per_night |-> row.unit.price_per_night,
         currency_code |-> row.unit.currency_code,
         total_price |-> total,
         image_url |-> IF row.unit.images # <<>> THEN row.unit.images[1] ELSE "",
         rating |-> row.properties.rating]

Failure(opname, a, err) == [op |-> opname, args |-> a, error |-> err]

\* book: resolve the unit by identifier or by name, then price the stay
book(a) ==
    IF looks_like_uuid(a.unit_id)
    THEN LET rows == SelectSeq(JoinedRooms, LAMBDA row : row.unit.id = a.unit_id)
         IN  IF Len(rows) = 1 THEN book_payload(a, rows[1])
             ELSE Failure("book", a, "APIError")
    ELSE LET lookup_name == Strip(IF a.unit_name # <<>> THEN a.unit_name ELSE a.unit_id)
             unit_rows ==
                 SelectSeq(JoinedRooms, LAMBDA row :
                     /\ row.unit.name = lookup_name
                     /\ (a.hotel_name # <<>> => row.properties.city = a.hotel_name))
         IN  IF lookup_name = <<>> THEN Failure("book", a, "ValueError")
             ELSE IF unit_rows = <<>> THEN Failure("book", a, "ValueError")
             ELSE book_payload(a, unit_rows[1])

(* ---------------------------- notification ------------------------------ *)

\* what the e-mail provider can do with one POST
ProviderOutcomes == {"2xx", "non2xx", "HTTPError", "URLError", "TimeoutError"}

\* _send_booking_confirmation_email: "ok", or the exception that leaves it
send_booking_confirmation_email(outcome) ==
    IF outcome = "2xx" THEN "ok"
    ELSE IF outcome \in {"non2xx", "HTTPError", "URLError"} THEN "RuntimeError"
    ELSE outcome

(* ---------------------------- book_confirm ------------------------------ *)

NoRow == [unit |-> [id |-> <<>>]]

NoArgs == [unit_id |-> <<>>]

IdleProc ==
    [pc |-> "idle", args |-> NoArgs, unit |-> NoRow, guest_id |-> 0, code |-> <<>>,
     result |-> [status |-> "none"], guest_inserts |-> 0, guest_updates |-> 0,
     reservation |-> 0, dispatches |-> 0, email |-> "none"]

Raise(st, err) == [st EXCEPT !.pc = "failed", !.result = [status |-> "error", error |-> err]]

\* uuid.uuid4().hex is random; these are leading digits of two possible draws
UuidHexes ==
    { <<"3", "f", "a", "9", "c", "1", "d", "2">>,
      <<"0", "0", "b", "7", "e", "4", "a", "a">> }

\* f"BK-{uuid.uuid4().hex[:6].upper()}"
confirmation_code(hex) == <<"B", "K", "-">> \o Upper(SubSeq(hex, 1, 6))

resolve_unit_unchecked(a, up) ==
    LET rows == SelectSeq(JoinedRooms, LAMBDA row : row.unit.id = a.unit_id)
        st == [IdleProc EXCEPT !.args = a]
    IN  IF ~up THEN Raise(st, "UpstreamFailure")
        ELSE IF Len(rows) # 1 THEN Raise(st, "APIError")
        ELSE [st EXCEPT !.pc = "guest_lookup", !.unit = rows[1]]

\* lines 605-619: fetch the unit with .single(), compare the unit_name hint
resolve_unit(a, up) ==
    LET rows == SelectSeq(JoinedRooms, LAMBDA row : row.unit.id = a.unit_id)
        st == [IdleProc EXCEPT !.args = a]
    IN  IF ~up THEN Raise(st, "UpstreamFailure")
        ELSE IF Len(rows) # 1 THEN Raise(st, "APIError")
        ELSE IF a.unit_name # <<>> /\ Strip(a.unit_name) # rows[1].unit.name
             THEN Raise(st, "ValueError")
        ELSE [st EXCEPT !.pc = "guest_lookup", !.unit = rows[1]]

\* the start of a book_confirm call on request slot p
BookConfirmCall(p, a, exclusive) ==
    /\ proc[p].pc \in {"idle", "done", "failed"}
    /\ exclusive => \A q \in Procs : proc[q].pc \in {"idle", "done", "failed"}
    /\ calls < MaxCalls
    /\ calls' = calls + 1
    /\ \E up \in BOOLEAN : proc' = [proc EXCEPT ![p] = resolve_unit(a, up)]
    /\ UNCHANGED <<properties, rooms, guests, bookings, guestSeq, outbox, resp, returned>>

guest_lookup_any_email(email, property_id) ==
    {g \in guests : g.property_id = property_id}

\* lines 622-629: select id from guests where email = .. and property_id = ..
guest_lookup(email, property_id) ==
    {g \in guests : g.email = email /\ g.property_id = property_id}

\* lines 622-632: look the guest up by (email, property_id) with .maybe_single()
GuestLookup(p) ==
    LET st == proc[p]
        found == guest_lookup(st.args.guest_email, st.unit.unit.property_id)
    IN  /\ st.pc = "guest_lookup"
        /\ \E up \in BOOLEAN :
             \/ /\ ~up
                /\ proc' = [proc EXCEPT ![p] = Raise(st, "UpstreamFailure")]
             \/ /\ up /\ found = {}
                /\ proc' = [proc EXCEPT ![p] = [st EXCEPT !.pc = "guest_insert"]]
             \/ /\ up /\ Cardinality(found) = 1
                /\ \E g \in found :
                     proc' = [proc EXCEPT ![p] =
                                 [st EXCEPT !.pc = "guest_update", !.guest_id = g.id]]
             \* several rows: the client raises, or hands back a list whose head is used
             \/ /\ up /\ Cardinality(found) > 1
                /\ \/ proc' = [proc EXCEPT ![p] = Raise(st, "APIError")]
                   \/ \E g \in found :
                        proc' = [proc EXCEPT ![p] =
                                    [st EXCEPT !.pc = "guest_update", !.guest_id = g.id]]
        /\ UNCHANGED <<properties, rooms, guests, bookings, guestSeq, outbox, resp, calls, returned>>

\* lines 634-638: update name and phone of the guest found
GuestUpdate(p) ==
    LET st == proc[p]
    IN  /\ st.pc = "guest_update"
        /\ \E up \in BOOLEAN :
             IF up
             THEN /\ guests' = {IF g.id = st.guest_id
                                THEN [g EXCEPT !.name = st.args.guest_name,
                                               !.phone = st.args.guest_phone]
                                ELSE g : g \in guests}
                  /\ proc' = [proc EXCEPT ![p] =
                                 [st EXCEPT !.pc = "reserve", !.guest_updates = 1]]
             ELSE /\ proc' = [proc EXCEPT ![p] = Raise(st, "UpstreamFailure")]
                  /\ UNCHANGED guests
        /\ UNCHANGED <<properties, rooms, bookings, guestSeq, outbox, resp, calls, returned>>

GuestInsert_unique(p) ==
    LET st == proc[p]
        found == guest_lookup(st.args.guest_email, st.unit.unit.property_id)
        row == [id |-> guestSeq, property_id |-> st.unit.unit.property_id,
                name |-> st.args.guest_name, email |-> st.args.guest_email,
                phone |-> st.args.guest_phone]
    IN  /\ st.pc = "guest_insert"
        /\ \E up \in BOOLEAN :
             IF up
             THEN IF found = {}
                  THEN /\ guests' = guests \cup {row}
                       /\ guestSeq' = guestSeq + 1
                       /\ proc' = [proc EXCEPT ![p] =
                                      [st EXCEPT !.pc = "reserve", !.guest_id = row.id,
                                                 !.guest_inserts = 1]]
                  ELSE /\ \E g \in found :
                            proc' = [proc EXCEPT ![p] =
                                        [st EXCEPT !.pc = "reserve", !.guest_id = g.id,
                                                   !.guest_inserts = 1]]
                       /\ UNCHANGED <<guests, guestSeq>>
             ELSE /\ proc' = [proc EXCEPT ![p] = Raise(st, "UpstreamFailure")]
                  /\ UNCHANGED <<guests, guestSeq>>
        /\ UNCHANGED <<properties, rooms, bookings, outbox, resp, calls, returned>>

\* lines 639-648: insert a new guest row and take its generated id
GuestInsert(p) ==
    LET st == proc[p]
        row == [id |-> guestSeq, property_id |-> st.unit.unit.property_id,
                name |-> st.args.guest_name, email |-> st.args.guest_email,
                phone |-> st.args.guest_phone]
    IN  /\ st.pc = "guest_insert"
        /\ \E up \in BOOLEAN :
             IF up
             THEN /\ guests' = guests \cup {row}
                  /\ guestSeq' = guestSeq + 1
                  /\ proc' = [proc EXCEPT ![p] =
                                 [st EXCEPT !.pc = "reserve", !.guest_id = row.id,
                                            !.guest_inserts = 1]]
             ELSE /\ proc' = [proc EXCEPT ![p] = Raise(st, "UpstreamFailure")]
                  /\ UNCHANGED <<guests, guestSeq>>
        /\ UNCHANGED <<properties, rooms, bookings, outbox, resp, calls, returned>>

booking_row_pending(st) ==
    [property_id |-> st.unit.unit.property_id,
     room_id |-> st.args.unit_id,
     guest_id |-> st.guest_id,
     check_in |-> isoformat(st.args.check_in),
     check_out |-> isoformat(st.args.check_out),
     guests_count |-> st.args.guests,
     total_price |-> st.args.total_price,
     currency_code |-> st.args.currency_code,
     status |-> "pending",
     ai_handled |-> TRUE,
     source |-> "chatgpt"]

\* the row of lines 658-672
booking_row(st) ==
    [property_id |-> st.unit.unit.property_id,
     room_id |-> st.args.unit_id,
     guest_id |-> st.guest_id,
     check_in |-> isoformat(st.args.check_in),
     check_out |-> isoformat(st.args.check_out),
     guests_count |-> st.args.guests,
     total_price |-> st.args.total_price,
     currency_code |-> st.args.currency_code,
     status |-> "confirmed",
     ai_handled |-> TRUE,
     source |-> "chatgpt"]

ReservationInsert_rejecting_conflict(p) ==
    LET st == proc[p]
        taken == \E i \in 1..Len(bookings) :
                     /\ bookings[i].room_id = st.unit.unit.id
                     /\ bookings[i].status = "confirmed"
    IN  /\ st.pc = "reserve"
        /\ \E hex \in UuidHexes, up \in BOOLEAN :
             IF up /\ ~taken
             THEN /\ bookings' = Append(bookings, booking_row(st))
                  /\ proc' = [proc EXCEPT ![p] =
                                 [st EXCEPT !.pc = "notify",
                                            !.code = confirmation_code(hex),
                                            !.reservation = Len(bookings) + 1]]
             ELSE /\ proc' = [proc EXCEPT ![p] =
                                 Raise(st, IF up THEN "Conflict" ELSE "UpstreamFailure")]
                  /\ UNCHANGED bookings
        /\ UNCHANGED <<properties, rooms, guests, guestSeq, outbox, resp, calls, returned>>

ReservationInsert_rollback(p) ==
    LET st == proc[p]
    IN  /\ st.pc = "reserve"
        /\ \E hex \in UuidHexes, up \in BOOLEAN :
             IF up
             THEN /\ bookings' = Append(bookings, booking_row(st))
                  /\ proc' = [proc EXCEPT ![p] =
                                 [st EXCEPT !.pc = "notify",
                                            !.code = confirmation_code(hex),
                                            !.reservation = Len(bookings) + 1]]
                  /\ UNCHANGED guests
             ELSE /\ proc' = [proc EXCEPT ![p] = Raise(st, "UpstreamFailure")]
                  /\ guests' = IF st.guest_inserts = 1
                               THEN {g \in guests : g.id # st.guest_id} ELSE guests
                  /\ UNCHANGED bookings
        /\ UNCHANGED <<properties, rooms, guestSeq, outbox, resp, calls, returned>>

ReservationInsert_ignoring_failure(p) ==
    LET st == proc[p]
    IN  /\ st.pc = "reserve"
        /\ \E hex \in UuidHexes, up \in BOOLEAN :
             IF up
             THEN /\ bookings' = Append(bookings, booking_row(st))
                  /\ proc' = [proc EXCEPT ![p] =
                                 [st EXCEPT !.pc = "notify",
                                            !.code = confirmation_code(hex),
                                            !.reservation = Len(bookings) + 1]]
             ELSE /\ proc' = [proc EXCEPT ![p] =
                                 [st EXCEPT !.pc = "notify", !.code = confirmation_code(hex)]]
                  /\ UNCHANGED bookings
        /\ UNCHANGED <<properties, rooms, guests, guestSeq, outbox, resp, calls, returned>>

\* lines 650-672: draw the confirmation code, insert the reservation
ReservationInsert(p) ==
    LET st == proc[p]
    IN  /\ st.pc = "reserve"
        /\ \E hex \in UuidHexes, up \in BOOLEAN :
             IF up
             THEN /\ bookings' = Append(bookings, booking_row(st))
                  /\ proc' = [proc EXCEPT ![p] =
                                 [st EXCEPT !.pc = "notify",
                                            !.code = confirmation_code(hex),
                                            !.reservation = Len(bookings) + 1]]
             ELSE /\ proc' = [proc EXCEPT ![p] = Raise(st, "UpstreamFailure")]
                  /\ UNCHANGED bookings
        /\ UNCHANGED <<properties, rooms, guests, guestSeq, outbox, resp, calls, returned>>

\* lines 674-691: the confirmation payload
structured_confirmation(st) ==
    [status |-> "confirmed",
     confirmation_code |-> st.code,
     unit_name |-> st.unit.unit.name,
     hotel_name |-> Get(st.unit.properties, "city"),
     check_in |-> isoformat(st.args.check_in),
     check_out |-> isoformat(st.args.check_out),
     nights |-> DaysBetween(st.args.check_out, st.args.check_in),
     guests |-> st.args.guests,
     total_price |-> st.args.total_price,
     currency_code |-> st.args.currency_code,
     guest_name |-> st.args.guest_name,
     guest_email |-> st.args.guest_email,
     guest_phone |-> st.args.guest_phone]

\* the keyword arguments of lines 694-706
email_kwargs(st) ==
    [guest_email |-> st.args.guest_email,
     hotel_name |-> Get(st.unit.properties, "city"),
     unit_name |-> st.unit.unit.name,
     confirmation_code |-> st.code,
     guest_name |-> st.args.guest_name,
     guest_phone |-> st.args.guest_phone,
     guests |-> st.args.guests,
     check_in |-> st.args.check_in,
     check_out |-> st.args.check_out,
     total_price |-> st.args.total_price,
     currency_code |-> st.args.currency_code]

after_dispatch_reraise(st, sent) ==
    IF sent = "ok" THEN [st EXCEPT !.pc = "done", !.result = structured_confirmation(st)]
    ELSE Raise(st, sent)

\* lines 693-733: whatever the dispatch raised is logged and dropped; the call returns
after_dispatch(st, sent) ==
    [st EXCEPT !.pc = "done", !.result = structured_confirmation(st)]

NotifyAndReturn(p) ==
    LET st == proc[p]
    IN  /\ st.pc = "notify"
        /\ \E outcome \in ProviderOutcomes :
             LET sent == send_booking_confirmation_email(outcome)
                 nxt == after_dispatch([st EXCEPT !.dispatches = st.dispatches + 1,
                                                 !.email = IF sent = "ok" THEN "sent" ELSE "failed"],
                                      sent)
             IN  /\ outbox' = Append(outbox, [by |-> p, kwargs |-> email_kwargs(st),
                                              delivered |-> (sent = "ok")])
                 /\ proc' = [proc EXCEPT ![p] = nxt]
                 /\ returned' = returned + (IF nxt.pc = "done" THEN 1 ELSE 0)
        /\ UNCHANGED <<properties, rooms, guests, bookings, guestSeq, resp, calls>>

(* ---------------------------- read-only tools --------------------------- *)

D0227 == Date(2026, 2, 27)
D0310 == Date(2026, 3, 10)
D0312 == Date(2026, 3, 12)

SearchHotelsArgs ==
    [hotel_name : {<<>>, QVysota}, city : {<<>>, QVolos}, country : {<<>>, Poland},
     lat : {NoneNum, 492}, lng : {NoneNum, 228}]

SearchRoomsArgs ==
    [hotel_name : {<<>>, Volosianka}, city : {<<>>, QVolos, QAn, Blank},
     country : {<<>>, Poland}, unit_type : {<<>>, Home},
     max_price : {NoneNum, 10000}, min_guests : {NoneNum, 3},
     amenity : {<<>>, QHot, QHotTubSpaced}, query : {<<>>, QVysota, QVolosianka, QPool}]

BookArgs ==
    [check_in : {D0227, D0310, D0312}, check_out : {D0227, D0310, D0312},
     unit_id : {<<>>, UnitId1, UnitIdMissing, SovaHouse},
     unit_name : {<<>>, SovaHousePadded, Leleka},
     hotel_name : {<<>>, Zakopane, TatraInn}, guests : {2}]

\* the few requests that run alongside bookings
FewSearchHotelsArgs ==
    {a \in SearchHotelsArgs : a.hotel_name = <<>> /\ a.city = <<>> /\ a.lat = NoneNum /\ a.lng = NoneNum}

FewSearchRoomsArgs ==
    {a \in SearchRoomsArgs : /\ a.hotel_name = <<>> /\ a.city = QVolos /\ a.unit_type = <<>>
                             /\ a.max_price = NoneNum /\ a.min_guests = NoneNum
                             /\ a.amenity = <<>> /\ a.query = <<>>}

FewBookArgs ==
    {a \in BookArgs : /\ a.check_in = D0310 /\ a.check_out = D0312 /\ a.unit_name = <<>>
                      /\ a.hotel_name = <<>> /\ a.unit_id = UnitId1}

SearchHotels(a) ==
    /\ calls < MaxCalls
    /\ calls' = calls + 1
    /\ \E up \in BOOLEAN :
         resp' = IF up THEN search_hotels(a) ELSE Failure("search_hotels", a, "UpstreamFailure")
    /\ UNCHANGED <<properties, rooms, guests, bookings, guestSeq, proc, outbox, returned>>

SearchRooms(a) ==
    /\ calls < MaxCalls
    /\ calls' = calls + 1
    /\ \E up \in BOOLEAN :
         resp' = IF up THEN search_rooms(a) ELSE Failure("search_rooms", a, "UpstreamFailure")
    /\ UNCHANGED <<properties, rooms, guests, bookings, guestSeq, proc, outbox, returned>>

Book_recording(a) ==
    /\ calls < MaxCalls
    /\ calls' = calls + 1
    /\ resp' = book(a)
    /\ bookings' = IF resp'.error = ""
                   THEN Append(bookings, [room_id |-> resp'.unit_id, status |-> "pending"])
                   ELSE bookings
    /\ UNCHANGED <<properties, rooms, guests, guestSeq, proc, outbox, returned>>

Book(a) ==
    /\ calls < MaxCalls
    /\ calls' = calls + 1
    /\ \E up \in BOOLEAN :
         resp' = IF up THEN book(a) ELSE Failure("book", a, "UpstreamFailure")
    /\ UNCHANGED <<properties, rooms, guests, bookings, guestSeq, proc, outbox, returned>>

(* ---------------------------- specifications ---------------------------- *)

ConfirmArgs(unit_id, unit_name, check_in, check_out, name, email, phone) ==
    [unit_id |-> unit_id, unit_name |-> unit_name, check_in |-> check_in,
     check_out |-> check_out, guests |-> 3, guest_name |-> name, guest_email |-> email,
     guest_phone |-> phone, total_price |-> 45000, currency_code |-> "USD"]

\* the booking requests that arrive
BookConfirmArgs ==
    { ConfirmArgs(UnitId1, <<>>, D0310, D0312, "John Doe", "john@example.com", "+1234567890"),
      ConfirmArgs(UnitId1, SovaHousePadded, D0227, D0312, "Johnny D", "john@example.com", "+1987654321"),
      ConfirmArgs(UnitId1, <<>>, D0312, D0310, "Jane Roe", "jane@example.com", "+1234567890"),
      ConfirmArgs(UnitId3, <<>>, D0310, D0312, "John Doe", "john@example.com", "+1234567890"),
      ConfirmArgs(UnitId1, Leleka, D0310, D0312, "John Doe", "john@example.com", "+1234567890"),
      ConfirmArgs(UnitIdMissing, <<>>, D0310, D0312, "John Doe", "john@example.com", "+1234567890") }

Init ==
    /\ properties = <<Property1, Property2>>
    /\ rooms = RoomsWith(<<Wifi, HotTub>>, <<Pool>>)
    /\ guests = {}
    /\ bookings = <<>>
    /\ guestSeq = 1
    /\ proc = [p \in Procs |-> IdleProc]
    /\ outbox = <<>>
    /\ resp = [op |-> "none", error |-> ""]
    /\ calls = 0
    /\ returned = 0

Steps(p) ==
    \/ GuestLookup(p)
    \/ GuestUpdate(p)
    \/ GuestInsert(p)
    \/ ReservationInsert(p)
    \/ NotifyAndReturn(p)

Reads ==
    \/ \E a \in FewSearchHotelsArgs : SearchHotels(a)
    \/ \E a \in FewSearchRoomsArgs : SearchRooms(a)
    \/ \E a \in FewBookArgs : Book(a)

\* requests arrive at any time: calls of book_confirm interleave step by step
Next ==
    \/ \E p \in Procs, a \in BookConfirmArgs : BookConfirmCall(p, a, FALSE)
    \/ \E p \in Procs : Steps(p)
    \/ Reads

Spec == Init /\ [][Next]_vars

\* one book_confirm call at a time
NextSeq ==
    \/ \E p \in Procs, a \in BookConfirmArgs : BookConfirmCall(p, a, TRUE)
    \/ \E p \in Procs : Steps(p)
    \/ Reads

SpecSeq == Init /\ [][NextSeq]_vars

\* the read-only tools over inventories with varying amenity columns
InitSearch ==
    /\ properties = <<Property1, Property2>>
    /\ rooms \in {RoomsWith(am1, am2) : am1 \in AmenityColumns, am2 \in {<<Pool>>, <<SmokeAlarm>>}}
    /\ guests = {}
    /\ bookings = <<>>
    /\ guestSeq = 1
    /\ proc = [p \in Procs |-> IdleProc]
    /\ outbox = <<>>
    /\ resp = [op |-> "none", error |-> ""]
    /\ calls = 0
    /\ returned = 0

\* one request per inventory
NextSearch ==
    \/ \E a \in SearchHotelsArgs : resp.op = "none" /\ SearchHotels(a)
    \/ \E a \in SearchRoomsArgs : resp.op = "none" /\ SearchRooms(a)
    \/ \E a \in BookArgs : resp.op = "none" /\ Book(a)

SpecSearch == InitSearch /\ [][NextSearch]_vars

(* ---------------------------- properties -------------------------------- *)

InFlight == {"guest_lookup", "guest_update", "guest_insert", "reserve", "notify"}

\* C1: a book_confirm call whose unit was resolved, whose guest upsert and
\* reservation insert succeeded and whose notification dispatch failed still
\* returns status "confirmed" with the generated confirmation code, and the
\* reservation it inserted is still stored.
C1_EmailFailureNonBlocking ==
    \A p \in Procs :
        proc[p].email = "failed" =>
            /\ proc[p].pc = "done"
            /\ proc[p].result.status = "confirmed"
            /\ proc[p].result.confirmation_code = proc[p].code
            /\ \E hex \in UuidHexes :
                 proc[p].code = <<"B", "K", "-">> \o Upper(SubSeq(hex, 1, 6))
            /\ proc[p].reservation \in 1..Len(bookings)
            /\ bookings[proc[p].reservation].room_id = proc[p].args.unit_id
            /\ bookings[proc[p].reservation].guest_id = proc[p].guest_id
            /\ bookings[proc[p].reservation].status = "confirmed"

C1_Witness ==
    \E p \in Procs :
        /\ proc[p].email = "failed" /\ proc[p].pc = "done"
        /\ \E i \in 1..Len(outbox) : outbox[i].by = p /\ ~outbox[i].delivered

\* the guest rows for the (email, property) pair of the call in slot p
GuestsOfCall(p, gs) ==
    {g \in gs : g.email = proc[p].args.guest_email
                /\ g.property_id = proc[p].unit.unit.property_id}

OneGuestPerEmailAndProperty ==
    \A g1 \in guests, g2 \in guests :
        (g1.email = g2.email /\ g1.property_id = g2.property_id) => g1 = g2

UpsertStep ==
    \A p \in Procs :
        /\ (proc[p].pc \in {"guest_update", "guest_insert"} /\ proc'[p].pc = "reserve") =>
              IF GuestsOfCall(p, guests) # {}
              THEN /\ {g.id : g \in guests'} = {g.id : g \in guests}
                   /\ Cardinality(guests') = Cardinality(guests)
                   /\ \E g \in GuestsOfCall(p, guests') :
                        /\ g.id = proc'[p].guest_id
                        /\ g.id \in {h.id : h \in GuestsOfCall(p, guests)}
                        /\ g.name = proc[p].args.guest_name
                        /\ g.phone = proc[p].args.guest_phone
              ELSE /\ Cardinality(guests') = Cardinality(guests) + 1
                   /\ \E g \in guests' \ guests :
                        /\ g \in GuestsOfCall(p, guests')
                        /\ g.id = proc'[p].guest_id
                        /\ guests' = guests \cup {g}
        /\ (proc[p].pc = "reserve" /\ proc'[p].pc = "notify") =>
              /\ Len(bookings') = Len(bookings) + 1
              /\ \E g \in GuestsOfCall(p, guests) :
                    bookings'[Len(bookings')].guest_id = g.id

\* C2: with book_confirm calls running one at a time the guest store holds at
\* most one guest per (email, property): a call whose email has a guest for the
\* unit's property inserts no row, reuses that guest's id for the reservation
\* and overwrites its name and phone; a call whose email has none inserts
\* exactly one new guest row.
C2_IdempotentGuestUpsert == []OneGuestPerEmailAndProperty /\ [][UpsertStep]_vars

C2_Witness ==
    \E p \in Procs :
        /\ proc[p].pc = "done" /\ proc[p].guest_updates = 1 /\ proc[p].guest_inserts = 0
        /\ Len(bookings) = 2 /\ Cardinality(guests) = 1
        /\ bookings[1].guest_id = bookings[2].guest_id

ReservationsAccounted ==
    /\ Len(bookings) = returned + Cardinality({p \in Procs : proc[p].pc = "notify"})
    /\ (\A p \in Procs : proc[p].pc \notin InFlight) => Len(bookings) = returned
    /\ \A i \in 1..Len(bookings) : bookings[i].status = "confirmed"
    /\ \A p \in Procs :
          /\ proc[p].pc = "done" =>
                (proc[p].reservation \in 1..Len(bookings)
                 /\ \A q \in Procs \ {p} :
                        proc[q].reservation # 0 => proc[q].reservation # proc[p].reservation)
          /\ proc[p].pc = "failed" => proc[p].reservation = 0

ReservationsOnlyAppended ==
    /\ Len(bookings') \in {Len(bookings), Len(bookings) + 1}
    /\ SubSeq(bookings', 1, Len(bookings)) = bookings

\* C3: a book_confirm call that returns has inserted exactly one reservation,
\* one that raised before or at the insert has inserted none, every row is
\* created "confirmed", and no step updates or deletes a row; so the number of
\* reservations is the number of successful calls.
C3_OneReservationPerSuccess == []ReservationsAccounted /\ [][ReservationsOnlyAppended]_vars

C3_Witness ==
    /\ returned = 1 /\ Len(bookings) = 1
    /\ \E p \in Procs : proc[p].pc = "failed" /\ proc[p].guest_id # 0

\* the searchable text named by the tool's documentation: unit name, description,
\* type, property name, city, state, country and the amenity labels
DocumentedBlob(row) ==
    LET p == PropertyOf(row.unit.property_id)
    IN  normalize_text(Join(<< OrEmpty(row.unit.name), OrEmpty(row.unit.description),
                               OrEmpty(row.unit.type), OrEmpty(p.name), OrEmpty(p.city),
                               OrEmpty(p.state), OrEmpty(p.country),
                               Join(normalize_amenities(row.unit.amenities), <<" ">>) >>,
                            <<" ">>))

DocumentedTextMatch(row, a) ==
    /\ (normalize_text(a.query) = <<>> \/ IsSubstr(normalize_text(a.query), DocumentedBlob(row)))
    /\ (normalize_text(a.amenity) = <<>>
        \/ IsSubstr(normalize_text(a.amenity),
                    normalize_text(Join(normalize_amenities(row.unit.amenities), <<" ">>))))

IdsOf(rows) == {rows[i].unit.id : i \in 1..Len(rows)}

ResultIds == {resp.units[i].id : i \in 1..Len(resp.units)}

SearchRoomsAnswered == resp.op = "search_rooms" /\ resp.error = ""

\* C4: search_rooms with city and country: when the query with the country
\* filter has no rows and the query without it has a row passing every text
\* filter, the result is relaxed, non-empty and holds exactly the text-matching
\* rows of the relaxed query; when both queries have no rows the result is
\* empty and not relaxed.
C4_CountryRelaxation ==
    (SearchRoomsAnswered /\ resp.args.city # <<>> /\ resp.args.country # <<>>
     /\ build_query(resp.args, TRUE) = <<>>) =>
        LET relaxed == build_query(resp.args, FALSE)
            passing == SelectSeq(relaxed, LAMBDA row : DocumentedTextMatch(row, resp.args))
        IN  /\ passing # <<>> =>
                 /\ resp.relaxed_country_filter
                 /\ resp.count > 0
                 /\ ResultIds = IdsOf(passing)
            /\ relaxed = <<>> => (resp.count = 0 /\ ~resp.relaxed_country_filter)

\* C5: a row of the structured query is in the result iff the normalized query
\* is empty or occurs in the normalized text of unit name, description, type,
\* property name, city, state, country and amenity labels, and the normalized
\* amenity filter is empty or occurs in the normalized amenity labels.
C5_TextFilterInclusion ==
    SearchRoomsAnswered =>
        LET rows == build_query(resp.args, ~resp.relaxed_country_filter)
        IN  \A i \in 1..Len(rows) :
                (rows[i].unit.id \in ResultIds) <=> DocumentedTextMatch(rows[i], resp.args)

\* the text lines of a note, its separators removed
NoteLines(note) == [i \in 1..((Len(note) + 1) \div 2) |-> note[2 * i - 1]]

SafetyRank(line) ==
    CASE line = SmokeNotReportedLine -> 1
      [] line = SmokeAvailableLine -> 1
      [] line = CarbonMonoxideLine -> 2
      [] line = CameraLine -> 3
      [] line = FireExtinguisherLine -> 4
      [] line = FirstAidLine -> 5
      [] OTHER -> 0

SafetyNoteOf(u) ==
    LET text == Join([i \in 1..Len(u.amenities) |-> Lower(u.amenities[i])], <<" ">>)
        lines == NoteLines(u.safety)
        has(line) == \E i \in 1..Len(lines) : lines[i] = line
        any == \/ IsSubstr(MarkerSmoke, text) \/ IsSubstr(MarkerCarbonMonoxide, text)
               \/ IsSubstr(MarkerCamera, text) \/ IsSubstr(MarkerFireExtinguisher, text)
               \/ IsSubstr(MarkerFirstAid, text)
    IN  /\ Len(u.safety) % 2 = 1
        /\ \A i \in 1..Len(u.safety) : (i % 2 = 0) => u.safety[i] = "\n"
        /\ has(SmokeNotReportedLine) <=> IsSubstr(MarkerSmokeNotReported, text)
        /\ has(SmokeAvailableLine) <=>
              (IsSubstr(MarkerSmoke, text) /\ ~IsSubstr(MarkerSmokeNotReported, text))
        /\ ~(has(SmokeNotReportedLine) /\ has(SmokeAvailableLine))
        /\ has(CarbonMonoxideLine) <=> IsSubstr(MarkerCarbonMonoxide, text)
        /\ has(CameraLine) <=> IsSubstr(MarkerCamera, text)
        /\ has(FireExtinguisherLine) <=> IsSubstr(MarkerFireExtinguisher, text)
        /\ has(FirstAidLine) <=> IsSubstr(MarkerFirstAid, text)
        /\ \A i \in 1..Len(lines), j \in 1..Len(lines) :
              i < j => (SafetyRank(lines[i]) # 0 /\ SafetyRank(lines[i]) < SafetyRank(lines[j]))
        /\ IF any THEN ~has(NoSafetyNotes) ELSE u.safety = <<NoSafetyNotes>>

\* C6: the safety note of a listing has one fixed line per matched marker in
\* the order smoke alarm, carbon monoxide alarm, camera, fire extinguisher,
\* first aid kit, joined by newlines; the smoke line is "not reported" when
\* that phrase occurs, else "available" when "smoke alarm" occurs, never both;
\* with no marker the note is the fixed no-safety-notes sentence.
C6_SafetyNote ==
    SearchRoomsAnswered => \A i \in 1..Len(resp.units) : SafetyNoteOf(resp.units[i])

C6_Witness ==
    /\ SearchRoomsAnswered
    /\ \E i \in 1..Len(resp.units) :
          /\ \E k \in 1..Len(resp.units[i].amenities) : resp.units[i].amenities[k] = SmokeAlarm
          /\ \E k \in 1..Len(resp.units[i].amenities) :
                resp.units[i].amenities[k] = SmokeAlarmNotReported
          /\ resp.units[i].safety = <<SmokeNotReportedLine, "\n", FirstAidLine>>

\* the calendar day after dt
NextDay(dt) ==
    IF dt.d < DaysInMonth(dt.y, dt.m) THEN [dt EXCEPT !.d = dt.d + 1]
    ELSE IF dt.m < 12 THEN Date(dt.y, dt.m + 1, 1)
    ELSE Date(dt.y + 1, 1, 1)

Earlier(a, b) ==
    \/ a.y < b.y
    \/ a.y = b.y /\ a.m < b.m
    \/ a.y = b.y /\ a.m = b.m /\ a.d < b.d

RECURSIVE DaysUntil(_, _)
DaysUntil(a, b) == IF a = b THEN 0 ELSE 1 + DaysUntil(NextDay(a), b)

\* whole days from a to b, counted one calendar day at a time
WholeDays(a, b) == IF Earlier(b, a) THEN 0 - DaysUntil(b, a) ELSE DaysUntil(a, b)

BookAnswered == resp.op = "book" /\ resp.error = ""

\* C7: book returns nights = whole days from check_in to check_out and
\* total_price = price_per_night * nights (150.00, 2026-03-10 to 2026-03-12:
\* 2 nights, 300.00), also when check_out is not after check_in, where nights
\* and total are zero or negative and no error is raised.
C7_BookPricing ==
    /\ BookAnswered =>
          /\ resp.nights = WholeDays(resp.args.check_in, resp.args.check_out)
          /\ \E i \in 1..Len(rooms) :
                /\ rooms[i].id = resp.unit_id
                /\ resp.total_price = rooms[i].price_per_night * resp.nights
          /\ (resp.price_per_night = 15000 /\ resp.args.check_in = Date(2026, 3, 10)
              /\ resp.args.check_out = Date(2026, 3, 12)) =>
                (resp.nights = 2 /\ resp.total_price = 30000)
          /\ ~Earlier(resp.args.check_in, resp.args.check_out) =>
                (resp.nights <= 0 /\ resp.total_price <= 0)
    /\ (resp.op = "book" /\ resp.error # "UpstreamFailure"
        /\ \E i \in 1..Len(rooms) : rooms[i].id = resp.args.unit_id) => resp.error = ""

C7_Witness ==
    /\ BookAnswered
    /\ resp.args.check_in = D0312 /\ resp.args.check_out = D0227
    /\ resp.nights = 0 - 13 /\ resp.total_price = 0 - 195000

\* a step of search_hotels, search_rooms or book: a tool invocation that is
\* not the start of a book_confirm call
ReadOnlyStep == calls' = calls + 1 /\ proc' = proc /\ resp'.op \in {"search_hotels", "search_rooms", "book"}

\* C8: search_hotels, search_rooms and book, succeeding or failing and in any
\* interleaving with book_confirm calls, leave the property, unit, guest and
\* reservation stores unchanged.
C8_ReadOnlyTools == [][ReadOnlyStep => UNCHANGED <<stores, guestSeq, outbox>>]_vars

C8_Witness ==
    /\ resp.op = "book" /\ resp.error = ""
    /\ guests # {}
    /\ \E p \in Procs : proc[p].pc = "reserve"

\* the hint of a call disagrees with the unit, or the unit does not exist
HintMismatchOrNoUnit(a) ==
    \/ \A i \in 1..Len(rooms) : rooms[i].id # a.unit_id
    \/ /\ a.unit_name # <<>>
       /\ \E i \in 1..Len(rooms) :
            rooms[i].id = a.unit_id /\ Strip(a.unit_name) # rooms[i].name

\* C9: book_confirm with a non-empty unit_name hint whose trimmed value differs
\* from the unit's name, or with a unit_id that resolves to no unit, fails and
\* writes nothing: no guest insert or update, no reservation, no notification.
RejectedCallWroteNothing ==
    \A p \in Procs :
        (proc[p].pc # "idle" /\ HintMismatchOrNoUnit(proc[p].args)) =>
            /\ proc[p].pc = "failed"
            /\ proc[p].result.status = "error"
            /\ proc[p].guest_inserts = 0 /\ proc[p].guest_updates = 0
            /\ proc[p].reservation = 0 /\ proc[p].dispatches = 0

RejectedCallStep ==
    \A p \in Procs :
        (proc[p].pc \notin InFlight /\ proc'[p] # proc[p]
         /\ HintMismatchOrNoUnit(proc'[p].args)) =>
            /\ proc'[p].pc = "failed"
            /\ UNCHANGED <<guests, bookings, outbox, guestSeq>>

C9_RejectedBeforeAnyWrite == []RejectedCallWroteNothing /\ [][RejectedCallStep]_vars

C9_Witness ==
    /\ \E p \in Procs :
          /\ proc[p].pc = "failed" /\ proc[p].args.unit_name = Leleka
          /\ proc[p].result.error = "ValueError"
    /\ \E p \in Procs : proc[p].pc = "failed" /\ proc[p].result.error = "APIError"

\* C10: a successful book_confirm call dispatches the notification exactly
\* once, to the call's guest_email, with the name of the Property owning the
\* unit as hotel name, the unit's name, the call's guests, check_in and
\* check_out, and the confirmation code of the returned payload.
C10_DispatchArguments ==
    \A p \in Procs :
        proc[p].pc = "done" =>
            /\ proc[p].dispatches = 1
            /\ \E i \in 1..Len(outbox) :
                 /\ outbox[i].by = p
                 /\ outbox[i].kwargs.guest_email = proc[p].args.guest_email
                 /\ outbox[i].kwargs.hotel_name = PropertyOf(proc[p].unit.unit.property_id).name
                 /\ outbox[i].kwargs.unit_name = proc[p].unit.unit.name
                 /\ outbox[i].kwargs.guests = proc[p].args.guests
                 /\ outbox[i].kwargs.check_in = proc[p].args.check_in
                 /\ outbox[i].kwargs.check_out = proc[p].args.check_out
                 /\ outbox[i].kwargs.confirmation_code = proc[p].result.confirmation_code

\* C11: every reservation row created by book_confirm is stored with the
\* confirmation code that the call returns and sends in the notification, so
\* each returned code identifies a stored reservation.
C11_CodeStoredWithReservation ==
    \A p \in Procs :
        proc[p].pc = "done" =>
            /\ proc[p].reservation \in 1..Len(bookings)
            /\ Get(bookings[proc[p].reservation], "confirmation_code")
                  = proc[p].result.confirmation_code
            /\ \E i \in 1..Len(bookings) :
                  Get(bookings[i], "confirmation_code") = proc[p].result.confirmation_code

\* the dates of a stored row, read back from their YYYY-MM-DD text
RECURSIVE DigitsValue(_)
DigitsValue(s) ==
    IF s = <<>> THEN 0
    ELSE 10 * DigitsValue(SubSeq(s, 1, Len(s) - 1))
         + ((CHOOSE k \in 1..10 : Digits[k] = s[Len(s)]) - 1)

ParseIso(s) ==
    Date(DigitsValue(SubSeq(s, 1, 4)), DigitsValue(SubSeq(s, 6, 7)), DigitsValue(SubSeq(s, 9, 10)))

\* C12: every reservation row that exists after any sequence of book_confirm
\* calls has check_out strictly after check_in.
C12_CheckOutAfterCheckIn ==
    \A i \in 1..Len(bookings) :
        Earlier(ParseIso(bookings[i].check_in), ParseIso(bookings[i].check_out))

\* C13: search_rooms issues the retry query without the country filter only when
\* city and country are both supplied and the primary structured query itself
\* returned no rows; when the primary query returns a row there is no second
\* query and relaxed_country_filter is false, even if the text filters remove
\* every returned row.
C13_RetryOnlyOnEmptyPrimaryQuery ==
    SearchRoomsAnswered =>
        /\ resp.queries = 2 =>
              /\ resp.args.city # <<>> /\ resp.args.country # <<>>
              /\ build_query(resp.args, TRUE) = <<>>
        /\ build_query(resp.args, TRUE) # <<>> =>
              (resp.queries = 1 /\ ~resp.relaxed_country_filter)

\* a text filter that is missing or blank, replaced by the filter not supplied
Unblank(text) == IF Strip(text) = <<>> THEN <<>> ELSE text

WithoutBlankFilters(a) ==
    [a EXCEPT !.hotel_name = Unblank(a.hotel_name), !.city = Unblank(a.city),
              !.country = Unblank(a.country), !.unit_type = Unblank(a.unit_type),
              !.amenity = Unblank(a.amenity), !.query = Unblank(a.query)]

\* C14: a search_rooms filter supplied as missing or blank (empty or
\* whitespace-only text, absent number) gives the same result set as the
\* filter not supplied: it adds no constraint to the datastore query and
\* removes no row in the text-filter phase.
C14_BlankFiltersAreNoOps ==
    SearchRoomsAnswered =>
        LET plain == search_rooms(WithoutBlankFilters(resp.args))
        IN  /\ resp.units = plain.units
            /\ resp.count = plain.count
            /\ IdsOf(build_query(resp.args, TRUE))
                  = IdsOf(build_query(WithoutBlankFilters(resp.args), TRUE))

\* what each call has done by the time it stands at a step
StepsDoneInOrder ==
    \A p \in Procs :
        LET st == proc[p]
            upserts == st.guest_inserts + st.guest_updates
        IN  /\ st.pc \in {"guest_lookup", "guest_update", "guest_insert"} =>
                  (st.unit # NoRow /\ upserts = 0 /\ st.reservation = 0 /\ st.dispatches = 0)
            /\ st.pc = "reserve" =>
                  (upserts = 1 /\ st.reservation = 0 /\ st.dispatches = 0)
            /\ st.pc = "notify" =>
                  (upserts = 1 /\ st.reservation \in 1..Len(bookings) /\ st.dispatches = 0)
            /\ st.pc = "done" =>
                  (upserts = 1 /\ st.reservation \in 1..Len(bookings) /\ st.dispatches = 1)
            /\ st.pc = "failed" =>
                  (upserts <= 1 /\ st.reservation = 0 /\ st.dispatches = 0
                   /\ st.result.status = "error")

StepSuccessors ==
    [idle |-> {"guest_lookup", "failed"},
     done |-> {"guest_lookup", "failed"},
     failed |-> {"guest_lookup", "failed"},
     guest_lookup |-> {"guest_update", "guest_insert", "failed"},
     guest_update |-> {"reserve", "failed"},
     guest_insert |-> {"reserve", "failed"},
     reserve |-> {"notify", "failed"},
     notify |-> {"done"}]

OneStepAtATime ==
    /\ \A p \in Procs :
          proc'[p] # proc[p] => proc'[p].pc \in StepSuccessors[proc[p].pc]
    /\ guests' # guests =>
          \E p \in Procs : /\ proc[p].pc \in {"guest_update", "guest_insert"}
                           /\ proc'[p].pc = "reserve"
    /\ bookings' # bookings =>
          /\ Len(bookings') = Len(bookings) + 1
          /\ \E p \in Procs : proc[p].pc = "reserve" /\ proc'[p].pc = "notify"
    /\ outbox' # outbox =>
          /\ Len(outbox') = Len(outbox) + 1
          /\ \E p \in Procs : /\ proc[p].pc = "notify" /\ proc'[p].pc = "done"
                              /\ outbox'[Len(outbox')].by = p
    /\ \A p \in Procs :
          (proc[p].pc \in {"guest_update", "guest_insert", "reserve"} /\ proc'[p].pc = "failed") =>
              UNCHANGED <<bookings, outbox>>

\* C15: book_confirm runs unit resolution, guest upsert, reservation insert,
\* notification dispatch in that order, each write and the dispatch at most
\* once per call; the dispatch is attempted only after the reservation insert
\* succeeded, and a datastore failure at the upsert or the insert aborts the
\* call with no reservation for it and no notification.
C15_StepOrder == []StepsDoneInOrder /\ [][OneStepAtATime]_vars

C15_Witness ==
    /\ \E p \in Procs :
          /\ proc[p].pc = "failed" /\ proc[p].result.error = "UpstreamFailure"
          /\ proc[p].guest_inserts = 1 /\ proc[p].reservation = 0
    /\ \E q \in Procs : proc[q].pc = "done" /\ proc[q].dispatches = 1
    /\ Len(bookings) = 1 /\ Len(outbox) = 1

\* the call in slot q stopped after its guest upsert, at its reservation insert
StoppedAfterUpsert(q) ==
    /\ proc[q].pc = "failed"
    /\ proc[q].guest_inserts + proc[q].guest_updates = 1

SameGuestKey(p, q) ==
    /\ proc[p].args.guest_email = proc[q].args.guest_email
    /\ proc[p].unit.unit.property_id = proc[q].unit.unit.property_id

OrphanGuestReused ==
    \A q \in Procs :
        StoppedAfterUpsert(q) =>
            /\ proc[q].reservation = 0
            /\ \E g \in GuestsOfCall(q, guests) : g.id = proc[q].guest_id
            /\ \A p \in Procs \ {q} :
                  (proc[p].pc \in {"reserve", "notify", "done"} /\ SameGuestKey(p, q)) =>
                      /\ proc[p].guest_id = proc[q].guest_id
                      /\ Cardinality(GuestsOfCall(q, guests)) = 1
                      /\ proc[q].guest_inserts = 1 =>
                            (proc[p].guest_inserts = 0 /\ proc[p].guest_updates = 1)
                      /\ proc[p].reservation # 0 =>
                            bookings[proc[p].reservation].guest_id = proc[q].guest_id

NoRollback ==
    \A q \in Procs :
        (proc[q].pc = "reserve" /\ proc'[q].pc = "failed") =>
            UNCHANGED <<guests, bookings>>

\* C16: a book_confirm call that stops after its guest upsert and before or at
\* its reservation insert leaves the guest row it wrote in the store with no
\* reservation of that call; the next call with the same email for the same
\* property finds that guest, inserts no second row and its reservation
\* references that guest's identifier.
C16_OrphanGuestIsReused == []OrphanGuestReused /\ [][NoRollback]_vars

C16_Witness ==
    \E q \in Procs, p \in Procs :
        /\ p # q
        /\ StoppedAfterUpsert(q) /\ proc[q].guest_inserts = 1
        /\ proc[p].pc = "done" /\ SameGuestKey(p, q)
        /\ proc[p].guest_updates = 1
        /\ Cardinality(guests) = 1 /\ Len(bookings) = 1
        /\ bookings[1].guest_id = proc[q].guest_id

\* the stays requested by the calls in slots p and q share at least one night
OverlappingStays(p, q) ==
    /\ proc[p].unit.unit.id = proc[q].unit.unit.id
    /\ Earlier(proc[p].args.check_in, proc[q].args.check_out)
    /\ Earlier(proc[q].args.check_in, proc[p].args.check_out)

ReservationOf(p) == bookings[proc[p].reservation]

NeverRejectedForOverlap ==
    \A p \in Procs :
        (proc[p].pc = "failed" /\ proc[p].guest_inserts + proc[p].guest_updates = 1) =>
            proc[p].result.error = "UpstreamFailure"

DoubleBookingKept ==
    \A p \in Procs, q \in Procs :
        (p # q /\ proc[p].pc = "done" /\ proc[q].pc = "done" /\ OverlappingStays(p, q)) =>
            /\ proc[p].reservation # proc[q].reservation
            /\ \A r \in {p, q} :
                  /\ proc[r].reservation \in 1..Len(bookings)
                  /\ ReservationOf(r).status = "confirmed"
                  /\ ReservationOf(r).room_id = proc[r].unit.unit.id
                  /\ ReservationOf(r).check_in = isoformat(proc[r].args.check_in)
                  /\ ReservationOf(r).check_out = isoformat(proc[r].args.check_out)

ReservationInsertIgnoresBookings ==
    \A p \in Procs :
        proc[p].pc = "reserve" =>
            \/ proc'[p].pc = "reserve"
            \/ /\ proc'[p].pc = "notify"
               /\ Len(bookings') = Len(bookings) + 1
               /\ bookings'[Len(bookings')].status = "confirmed"
            \/ /\ proc'[p].pc = "failed"
               /\ proc'[p].result.error = "UpstreamFailure"

\* C17: book_confirm never reads existing reservations: a call is never
\* rejected because of another reservation of the same unit, and two calls for
\* the same unit with overlapping stays, sequential or interleaved, both
\* complete and leave two "confirmed" reservations of that unit with
\* overlapping dates.
C17_DoubleBookingPossible ==
    /\ [](NeverRejectedForOverlap /\ DoubleBookingKept)
    /\ [][ReservationInsertIgnoresBookings]_vars

C17_Witness ==
    \E p \in Procs, q \in Procs :
        /\ p # q
        /\ proc[p].pc = "done" /\ proc[q].pc = "done"
        /\ OverlappingStays(p, q)
        /\ Len(bookings) = 2
        /\ bookings[1].room_id = bookings[2].room_id
        /\ bookings[1].status = "confirmed" /\ bookings[2].status = "confirmed"
        /\ bookings[1].check_in # bookings[2].check_in

PastUpsert(p) == proc[p].pc \in {"reserve", "notify", "done"}

\* C18 as stated: interleaved calls with one new email for one property still
\* end with at most one guest record for the pair, shared by both
\* reservations.
C18_OneGuestUnderInterleaving ==
    \A p \in Procs, q \in Procs :
        (p # q /\ PastUpsert(p) /\ PastUpsert(q) /\ SameGuestKey(p, q)) =>
            /\ Cardinality(GuestsOfCall(p, guests)) <= 1
            /\ proc[p].guest_id = proc[q].guest_id

OwnGuestReferenced ==
    \A p \in Procs :
        PastUpsert(p) =>
            /\ proc[p].guest_inserts + proc[p].guest_updates = 1
            /\ \E g \in GuestsOfCall(p, guests) : g.id = proc[p].guest_id
            /\ proc[p].reservation # 0 => ReservationOf(p).guest_id = proc[p].guest_id

EachInsertAddsARecord ==
    /\ \A g \in guests, h \in guests : g.id = h.id => g = h
    /\ \A p \in Procs, q \in Procs :
          (p # q /\ PastUpsert(p) /\ PastUpsert(q) /\ SameGuestKey(p, q)
                 /\ proc[p].guest_inserts = 1 /\ proc[q].guest_inserts = 1) =>
              /\ proc[p].guest_id # proc[q].guest_id
              /\ Cardinality(GuestsOfCall(p, guests)) = 2

InsertAfterEmptyLookup ==
    \A p \in Procs :
        (proc[p].pc = "guest_insert" /\ proc'[p].pc = "reserve") =>
            /\ Cardinality(guests') = Cardinality(guests) + 1
            /\ guests \subseteq guests'
            /\ \E g \in guests' \ guests : g.id = proc'[p].guest_id

\* C18 (amended): without a uniqueness constraint in the datastore, each of
\* two interleaved calls that found no guest at its lookup inserts its own
\* record, so the store can hold two guest records for one (email, property)
\* pair; every reservation references the guest record its own call found or
\* inserted, which is a record of that email and property.
C18_InterleavedUpsertDuplicates ==
    /\ [](OwnGuestReferenced /\ EachInsertAddsARecord)
    /\ [][InsertAfterEmptyLookup]_vars

C18_Witness ==
    \E p \in Procs, q \in Procs :
        /\ p # q
        /\ proc[p].pc = "done" /\ proc[q].pc = "done"
        /\ SameGuestKey(p, q)
        /\ proc[p].guest_inserts = 1 /\ proc[q].guest_inserts = 1
        /\ Cardinality(GuestsOfCall(p, guests)) = 2
        /\ ReservationOf(p).guest_id # ReservationOf(q).guest_id

\* the rows the documented lookup of book selects: by identifier for a
\* 36-character identifier with 4 hyphens, else by name within the property
\* named by the hotel qualifier
DocumentedBookRows(a) ==
    IF looks_like_uuid(a.unit_id)
    THEN SelectSeq(JoinedRooms, LAMBDA row : row.unit.id = a.unit_id)
    ELSE LET lookup_name == Strip(IF a.unit_name # <<>> THEN a.unit_name ELSE a.unit_id)
         IN  IF lookup_name = <<>> THEN <<>>
             ELSE SelectSeq(JoinedRooms, LAMBDA row :
                      /\ row.unit.name = lookup_name
                      /\ (a.hotel_name # <<>> => row.properties.name = a.hotel_name))

\* C19: book resolves its unit by identifier exactly when unit_id has 36
\* characters and 4 hyphens, otherwise by name restricted to the property
\* whose name equals hotel_name when one is given; it answers with an error
\* and no payload when no name or identifier is given or no row matches, and
\* with the first matching row otherwise.
C19_BookResolution ==
    (resp.op = "book" /\ resp.error # "UpstreamFailure") =>
        LET rows == DocumentedBookRows(resp.args)
        IN  IF rows = <<>>
            THEN resp.error # "" /\ "unit_id" \notin DOMAIN resp
            ELSE resp.error = "" /\ resp.unit_id = rows[1].unit.id

====
